---- MODULE Spec2Model ----
(***************************************************************************)
(* Buffer flow of the ES8388 I2S character driver                          *)
(* (os/drivers/audio/es8388char.c): the 'alloc' counting semaphore that    *)
(* gates transmit buffers, the receive completion queue rxedq with its     *)
(* guard rxsem and its availability counter cnt_rxsem, the counter rx_cnt  *)
(* of pre-posted receive buffers, the ioctl commands that drive them and   *)
(* the two I2S completion callbacks.  A last part models net_delroute      *)
(* (os/net/route/net_delroute.c) on the routing table g_routes.            *)
(*                                                                         *)
(* Caller threads run es8388char_ioctl concurrently (exclsem is            *)
(* initialised but never taken), one step per shared-memory access or      *)
(* blocking call.  The I2S lower half is an environment: it accepts or     *)
(* rejects a request and later calls back, in the order of the requests.   *)
(***************************************************************************)
EXTENDS Integers, Sequences, FiniteSets, TLC

ES8388CHAR_RXBUF_CNT == 8
ES8388CHAR_TXBUF_CNT == 8

OK == 0
NULL == 0
ENOMEM == 12
EIO == 5
ERANGE == 34
ENOTTY == 25
SIZEOF_BUFDESC == 8
ENOENT == 2

\* Sample rates es8388char_setbitrate knows (tinyara/audio/audio.h).
AUDIO_SAMP_RATE_8K == 8000
AUDIO_SAMP_RATE_12K == 12000
AUDIO_SAMP_RATE_16K == 16000
AUDIO_SAMP_RATE_24K == 24000
AUDIO_SAMP_RATE_32K == 32000
AUDIO_SAMP_RATE_48K == 48000
AUDIO_SAMP_RATE_96K == 96000

\* Bounds of the model: buffers the pool can ever hand out, and failures the
\* environment (buffer pool, I2S lower half) answers with.
MaxBufs == 9
MaxFaults == 1

\* Bound of the model: buffers played while the control commands are issued.
MaxPlayed == 1

\* Values of caps->ac_controls.hw[0] (uint16_t) the callers configure with,
\* per feature unit: the ends of the range, their neighbours outside it, a
\* value inside, and values whose int16_t reading is negative.
VolumeValues == {0, 500, 1000, 1001, 65535}
BalanceValues == {0, 1000, 1001, 32768, 64535, 64536}
MicGainValues == {0, 53, 54, 60, 65519, 65520}
MuteValues == {0, 1, 256}

\* Stream formats the callers configure with: channels, rate, sample width.
ChannelValues == {1, 2}
RateValues == {AUDIO_SAMP_RATE_8K, 44100, AUDIO_SAMP_RATE_48K}
WidthValues == {16, 24}

\* Bound of the model: entries of the routing table.
MaxRoutes == 3

\* Addresses of two bits: the targets routes are added with and looked up
\* by, and the netmasks (a one-bit and a two-bit prefix).
RouteTargets == {0, 1, 2}
RouteMasks == {2, 3}

\* Two caller threads, each with one struct audio_buf_desc_s of its own.
Threads == {1, 2}
\* Handles.  The pool never hands a handle out twice; a handle is named after
\* the command whose apb_alloc returned it and its rank among those: TxBuf(n)
\* is the n-th buffer of AUDIOIOC_ALLOCBUFFER, RxBuf(n) the n-th buffer of
\* the pre-post loop of AUDIOIOC_DEQUEUEBUFFER.
TxBuf(n) == n
RxBuf(n) == MaxBufs + n
Bufs == 1..(2 * MaxBufs)

VARIABLES
    alloc,      \* priv->alloc: counting semaphore, free transmit slots
    rxsem,      \* priv->rxsem: guard of rxedq and rx_cnt
    cnt_rxsem,  \* priv->cnt_rxsem: counts completed receive buffers
    rx_cnt,     \* priv->rx_cnt: receive buffers pre-posted and not yet freed
    rxedq,      \* priv->rxedq: queue of received buffers
    pc,         \* per caller thread: position inside es8388char_ioctl
    ret,        \* per caller thread: the local 'ret' / value last returned
    held,       \* per caller thread: bufdesc->u.pBuffer, the handle it owns
    txq,        \* buffers accepted by I2S_SEND, callback not yet started
    rxq,        \* buffers accepted by I2S_RECEIVE, callback not yet started
    rxcb,       \* the running es8388char_rxcallback: [pc, apb]
    txcb,       \* the running es8388char_txcallback: its apb, NULL if none
    ntx,        \* buffers apb_alloc has returned to AUDIOIOC_ALLOCBUFFER
    nrx,        \* buffers apb_alloc has returned to AUDIOIOC_DEQUEUEBUFFER
    crefs,      \* per buffer: apb->crefs, 1 after apb_alloc, -1 per apb_free
    faults,     \* failures the pool and the I2S lower half have answered so far
    ctl,        \* priv->samprate, bpsamp, nchannels, volume, balance, micgain,
                \* mute, running, paused, terminating
    codec,      \* what was last programmed: the I2S data width
                \* (I2S_TXDATAWIDTH) and the codec's FsRatio registers; log is
                \* what the last output-format Configure that got past its
                \* checks programmed, in the order of the calls
    reg,        \* es8388char_register: position, the device structure, whether
                \* register_driver has created the device node, value returned
    lastok,     \* the last of Configure/Start/Stop that returned OK
    g_routes,   \* the routing table: a list of struct net_route_s
    g_freeroutes, \* the free list of routing table entries
    delret      \* the value net_delroute last returned

vars == <<alloc, rxsem, cnt_rxsem, rx_cnt, rxedq, pc, ret, held,
          txq, rxq, rxcb, txcb, ntx, nrx, crefs, faults, ctl, codec, reg, lastok,
          g_routes, g_freeroutes, delret>>

gate     == <<alloc>>
rxstate  == <<rxsem, cnt_rxsem, rx_cnt, rxedq>>
pool     == <<ntx, nrx, crefs>>
net      == <<g_routes, g_freeroutes, delret>>
env      == <<faults, net>>
i2s      == <<txq, rxq>>
cbs      == <<rxcb, txcb>>
control  == <<ctl, codec, reg, lastok>>

----------------------------------------------------------------------------
(* es8388char_register: the state of a freshly registered device.          *)

\* kmm_zalloc: every field of the device structure is zero.
ZeroControl ==
    [samprate |-> 0, bpsamp |-> 0, nchannels |-> 0, volume |-> 0,
     balance |-> 0, micgain |-> 0, mute |-> FALSE, running |-> FALSE,
     paused |-> FALSE, terminating |-> FALSE]

\* The device structure as es8388char_register fills it in, the callers and
\* the environment at rest.
InitDevice ==
    /\ alloc = ES8388CHAR_TXBUF_CNT
    /\ rxsem = 1
    /\ cnt_rxsem = 0
    /\ rx_cnt = 0
    /\ rxedq = <<>>
    /\ pc = [t \in Threads |-> "idle"]
    /\ ret = [t \in Threads |-> OK]
    /\ held = [t \in Threads |-> NULL]
    /\ txq = <<>>
    /\ rxq = <<>>
    /\ rxcb = [pc |-> "idle", apb |-> NULL]
    /\ txcb = NULL
    /\ ntx = 0
    /\ nrx = 0
    /\ crefs = [b \in Bufs |-> 0]
    /\ faults = 0
    /\ ctl = ZeroControl
    /\ codec = [txdatawidth |-> -1, FsRatio |-> -1, log |-> <<>>]
    /\ lastok = "none"

\* No route has been added to the routing table.
NoRoutes ==
    /\ g_routes = <<>>
    /\ g_freeroutes = <<>>
    /\ delret = OK

\* After es8388char_register has succeeded.
Init ==
    /\ InitDevice
    /\ reg = [pc |-> "done", priv |-> "live", registered |-> TRUE, ret |-> OK]
    /\ NoRoutes

\* Before es8388char_register is called.
InitReg ==
    /\ InitDevice
    /\ reg = [pc |-> "start", priv |-> "none", registered |-> FALSE, ret |-> OK]
    /\ NoRoutes

----------------------------------------------------------------------------
(* Helpers: the library calls the driver makes.                            *)

\* apb_alloc succeeds only while the pool has a buffer left; it fails when
\* the pool is exhausted, and whenever the environment decides so.
PoolHasRoom == ntx + nrx < MaxBufs
PoolFails == ~PoolHasRoom \/ faults < MaxFaults
PoolFaults == IF PoolHasRoom THEN faults + 1 ELSE faults

\* apb_free(b): drops one reference; the buffer is destroyed at zero.
apb_free(refs, b) == [refs EXCEPT ![b] = @ - 1]

\* dq_addlast(b, q): the queue with b linked in at the tail.
dq_addlast(b, q) == Append(q, b)

\* Mutant: the entry at the tail is unlinked.
dq_remlast(q) ==
    IF q = <<>> THEN [entry |-> NULL, rest |-> q]
                ELSE [entry |-> q[Len(q)], rest |-> SubSeq(q, 1, Len(q) - 1)]

\* dq_remfirst(q): the entry at the head (NULL if the queue is empty) and the
\* queue that is left.
dq_remfirst(q) ==
    IF q = <<>> THEN [entry |-> NULL, rest |-> q]
                ELSE [entry |-> Head(q), rest |-> Tail(q)]

Goto(t, l) == pc' = [pc EXCEPT ![t] = l]
Return(t, r) == /\ pc' = [pc EXCEPT ![t] = "idle"]
                /\ ret' = [ret EXCEPT ![t] = r]

----------------------------------------------------------------------------
(* AUDIOIOC_ALLOCBUFFER                                                    *)

\* Entry of the command; ret = 0.
AllocCall(t) ==
    /\ pc[t] = "idle"
    /\ held[t] = NULL
    /\ Goto(t, "alloc_wait")
    /\ ret' = [ret EXCEPT ![t] = OK]
    /\ UNCHANGED <<control, env, gate, rxstate, held, i2s, cbs, pool>>

\* Mutant: the allocation does not wait for, nor take, a slot.
AllocApbOkNoSlot(t) ==
    /\ pc[t] = "alloc_wait"
    /\ PoolHasRoom
    /\ crefs' = [crefs EXCEPT ![TxBuf(ntx + 1)] = 1]
    /\ ntx' = ntx + 1
    /\ held' = [held EXCEPT ![t] = TxBuf(ntx + 1)]
    /\ Return(t, OK)
    /\ UNCHANGED <<control, env, gate, rxstate, i2s, cbs, nrx>>

\* sem_wait(&priv->alloc) blocks while no slot is free; then
\* ret = apb_alloc(bufdesc), which touches the pool only, so both are one
\* step.  Here apb_alloc succeeds: the caller receives a new handle.
AllocApbOk(t) ==
    /\ pc[t] = "alloc_wait"
    /\ alloc > 0
    /\ alloc' = alloc - 1
    /\ PoolHasRoom
    /\ crefs' = [crefs EXCEPT ![TxBuf(ntx + 1)] = 1]
    /\ ntx' = ntx + 1
    /\ held' = [held EXCEPT ![t] = TxBuf(ntx + 1)]
    /\ Return(t, OK)
    /\ UNCHANGED <<control, env, rxstate, i2s, cbs, nrx>>

\* sem_wait(&priv->alloc) is passed and apb_alloc fails: the ioctl returns
\* the error as it is.
AllocApbFail(t) ==
    /\ pc[t] = "alloc_wait"
    /\ alloc > 0
    /\ alloc' = alloc - 1
    /\ PoolFails
    /\ faults' = PoolFaults
    /\ Return(t, -ENOMEM)
    /\ UNCHANGED <<control, net, rxstate, held, i2s, cbs, pool>>

AllocateBuffer(t) ==
    AllocCall(t) \/ AllocApbOk(t) \/ AllocApbFail(t)

----------------------------------------------------------------------------
(* AUDIOIOC_FREEBUFFER                                                     *)

\* apb_free(bufdesc->u.pBuffer).  DEBUGASSERT(priv->rx_cnt > 0) follows; it
\* is compiled out of non-debug builds and changes no state.
FreeCall(t, b) ==
    /\ pc[t] = "idle"
    /\ b # NULL
    /\ b = held[t]
    /\ held' = [held EXCEPT ![t] = NULL]
    /\ crefs' = apb_free(crefs, b)
    /\ Goto(t, "free_lock")
    /\ UNCHANGED <<control, env, gate, rxstate, ret, i2s, cbs, ntx, nrx>>

\* sem_wait(&priv->rxsem)
FreeLock(t) ==
    /\ pc[t] = "free_lock"
    /\ rxsem > 0
    /\ rxsem' = rxsem - 1
    /\ Goto(t, "free_dec")
    /\ UNCHANGED <<control, env, gate, cnt_rxsem, rx_cnt, rxedq, ret, held, i2s, cbs,
                   pool>>

\* Mutant: the command takes two off the counter.
FreeDecTwice(t) ==
    /\ pc[t] = "free_dec"
    /\ rx_cnt' = rx_cnt - 2
    /\ rxsem' = rxsem + 1
    /\ Return(t, SIZEOF_BUFDESC)
    /\ UNCHANGED <<control, env, gate, cnt_rxsem, rxedq, held, i2s, cbs, pool>>

\* Mutant: the command also gives a slot of the gate back.
FreeDecPostsGate(t) ==
    /\ pc[t] = "free_dec"
    /\ rx_cnt' = rx_cnt - 1
    /\ rxsem' = rxsem + 1
    /\ alloc' = alloc + 1
    /\ Return(t, SIZEOF_BUFDESC)
    /\ UNCHANGED <<control, env, cnt_rxsem, rxedq, held, i2s, cbs, pool>>

\* priv->rx_cnt--; sem_post(&priv->rxsem); ret = sizeof(struct audio_buf_desc_s)
FreeDec(t) ==
    /\ pc[t] = "free_dec"
    /\ rx_cnt' = rx_cnt - 1
    /\ rxsem' = rxsem + 1
    /\ Return(t, SIZEOF_BUFDESC)
    /\ UNCHANGED <<control, env, gate, cnt_rxsem, rxedq, held, i2s, cbs, pool>>

ReleaseBuffer(t) ==
    (\E b \in Bufs : FreeCall(t, b)) \/ FreeLock(t) \/ FreeDec(t)

\* The command with bufdesc->u.pBuffer == NULL.  There is no check but
\* DEBUGASSERT, which stops a debug build; elsewhere apb_free(NULL) works on
\* the null handle, which either faults or lets the command go on to the
\* counter.  Issued while rx_cnt is not negative, which keeps rx_cnt bounded.
FreeCallNull(t) ==
    /\ pc[t] = "idle"
    /\ held[t] = NULL
    /\ rx_cnt >= 0
    /\ \/ Goto(t, "free_lock")
       \/ Goto(t, "abort")
    /\ UNCHANGED <<control, env, gate, rxstate, ret, held, i2s, cbs, pool>>

----------------------------------------------------------------------------
(* AUDIOIOC_ENQUEUEBUFFER                                                  *)

\* Mutant: the caller keeps the handle it has handed to the transport.
EnqueueOkKeep(t, b) ==
    /\ pc[t] = "idle"
    /\ b # NULL
    /\ b = held[t]
    /\ txq' = Append(txq, b)
    /\ Return(t, OK)
    /\ UNCHANGED <<control, env, gate, rxstate, held, rxq, cbs, pool>>

\* Mutant: the command is serialised with the receive side by rxsem.
EnqueueOkUnderGuard(t, b) ==
    /\ pc[t] = "idle"
    /\ b # NULL
    /\ b = held[t]
    /\ rxsem > 0
    /\ held' = [held EXCEPT ![t] = NULL]
    /\ txq' = Append(txq, b)
    /\ Return(t, OK)
    /\ UNCHANGED <<control, env, gate, rxstate, rxq, cbs, pool>>

\* I2S_SEND accepts: the buffer is the transport's until es8388char_txcallback.
EnqueueOk(t, b) ==
    /\ pc[t] = "idle"
    /\ b # NULL
    /\ b = held[t]
    /\ held' = [held EXCEPT ![t] = NULL]
    /\ txq' = Append(txq, b)
    /\ Return(t, OK)
    /\ UNCHANGED <<control, env, gate, rxstate, rxq, cbs, pool>>

\* I2S_SEND rejects: the ioctl returns the error and does nothing else.
EnqueueFail(t, b) ==
    /\ pc[t] = "idle"
    /\ b # NULL
    /\ b = held[t]
    /\ faults < MaxFaults
    /\ faults' = faults + 1
    /\ Return(t, -EIO)
    /\ UNCHANGED <<control, net, gate, rxstate, held, i2s, cbs, pool>>

EnqueueTransmit(t) ==
    \E b \in Bufs : EnqueueOk(t, b) \/ EnqueueFail(t, b)

----------------------------------------------------------------------------
(* es8388char_txcallback                                                   *)

\* Mutant: the callback frees the buffer and gives no slot back.
TxCallbackNoPost ==
    /\ txq # <<>>
    /\ txq' = Tail(txq)
    /\ crefs' = apb_free(crefs, Head(txq))
    /\ UNCHANGED <<control, env, gate, rxstate, pc, ret, held, rxq, cbs, ntx, nrx>>

\* Mutant: the callback gives two slots back.
TxCallbackPostTwice ==
    /\ txq # <<>>
    /\ txq' = Tail(txq)
    /\ crefs' = apb_free(crefs, Head(txq))
    /\ alloc' = alloc + 2
    /\ UNCHANGED <<control, env, rxstate, pc, ret, held, rxq, cbs, ntx, nrx>>

\* Mutant: the callback also puts the volume back to its reset value.
TxCallbackResetsVolume ==
    /\ txq # <<>>
    /\ txq' = Tail(txq)
    /\ crefs' = apb_free(crefs, Head(txq))
    /\ alloc' = alloc + 1
    /\ ctl' = [ctl EXCEPT !.volume = 0]
    /\ UNCHANGED <<codec, reg, lastok, env, rxstate, pc, ret, held, rxq, cbs,
                   ntx, nrx>>

\* The transport completes its oldest send and calls back with the buffer:
\* apb_free(apb); sem_post(&priv->alloc).  The buffer is nobody else's, so
\* the two calls are one step.
TxCallback ==
    /\ txq # <<>>
    /\ txq' = Tail(txq)
    /\ crefs' = apb_free(crefs, Head(txq))
    /\ alloc' = alloc + 1
    /\ UNCHANGED <<control, env, rxstate, pc, ret, held, rxq, cbs, ntx, nrx>>

----------------------------------------------------------------------------
(* AUDIOIOC_DEQUEUEBUFFER                                                  *)

\* Entry of the command; ret = 0.
DqCall(t) ==
    /\ pc[t] = "idle"
    /\ held[t] = NULL
    /\ Goto(t, "dq_check")
    /\ ret' = [ret EXCEPT ![t] = OK]
    /\ UNCHANGED <<control, env, gate, rxstate, held, i2s, cbs, pool>>

\* Mutant: the command waits for data whatever the loop has left in ret.
AfterLoopAlwaysWaits(r) == "dq_wait"

\* Where the command continues after the pre-post loop: it waits for data
\* only if (ret >= 0), and returns ret otherwise.
AfterLoop(r) == IF r >= 0 THEN "dq_wait" ELSE "idle"

\* Mutant: the loop stops one buffer short of the ceiling.
DqCheckShort(t) ==
    /\ pc[t] = "dq_check"
    /\ IF rx_cnt < ES8388CHAR_RXBUF_CNT - 1
          THEN Goto(t, "dq_post")
          ELSE Goto(t, AfterLoop(ret[t]))
    /\ UNCHANGED <<control, env, gate, rxstate, ret, held, i2s, cbs, pool>>

\* while (priv->rx_cnt < ES8388CHAR_RXBUF_CNT): read without the guard.
DqCheck(t) ==
    /\ pc[t] = "dq_check"
    /\ IF rx_cnt < ES8388CHAR_RXBUF_CNT
          THEN Goto(t, "dq_post")
          ELSE Goto(t, AfterLoop(ret[t]))
    /\ UNCHANGED <<control, env, gate, rxstate, ret, held, i2s, cbs, pool>>

\* One pass of the loop body up to the guard.  apb_alloc and I2S_RECEIVE
\* touch the pool and the transport only, so the pass is one step; the local
\* apb lives inside it.

\* ret = apb_alloc(bufdesc) fails: break, and the command returns ret.
DqAllocFail(t) ==
    /\ pc[t] = "dq_post"
    /\ PoolFails
    /\ faults' = PoolFaults
    /\ ret' = [ret EXCEPT ![t] = -ENOMEM]
    /\ Goto(t, AfterLoop(-ENOMEM))
    /\ UNCHANGED <<control, net, gate, rxstate, held, i2s, cbs, pool>>

\* apb_alloc succeeds and ret = I2S_RECEIVE(...) accepts: the buffer is the
\* transport's until es8388char_rxcallback.
DqRecvOk(t) ==
    /\ pc[t] = "dq_post"
    /\ PoolHasRoom
    /\ crefs' = [crefs EXCEPT ![RxBuf(nrx + 1)] = 1]
    /\ nrx' = nrx + 1
    /\ rxq' = Append(rxq, RxBuf(nrx + 1))
    /\ ret' = [ret EXCEPT ![t] = OK]
    /\ Goto(t, "dq_lock")
    /\ UNCHANGED <<control, env, gate, rxstate, held, txq, cbs, ntx>>

\* Mutant: the rejected buffer is not freed.
DqRecvFailKeeps(t) ==
    /\ pc[t] = "dq_post"
    /\ PoolHasRoom
    /\ faults < MaxFaults
    /\ faults' = faults + 1
    /\ crefs' = [crefs EXCEPT ![RxBuf(nrx + 1)] = 1]
    /\ nrx' = nrx + 1
    /\ ret' = [ret EXCEPT ![t] = -EIO]
    /\ Goto(t, AfterLoop(-EIO))
    /\ UNCHANGED <<control, net, gate, rxstate, held, i2s, cbs, ntx>>

\* apb_alloc succeeds and ret = I2S_RECEIVE(...) rejects: apb_free(apb); break.
DqRecvFail(t) ==
    /\ pc[t] = "dq_post"
    /\ PoolHasRoom
    /\ faults < MaxFaults
    /\ faults' = faults + 1
    /\ crefs' = apb_free([crefs EXCEPT ![RxBuf(nrx + 1)] = 1], RxBuf(nrx + 1))
    /\ nrx' = nrx + 1
    /\ ret' = [ret EXCEPT ![t] = -EIO]
    /\ Goto(t, AfterLoop(-EIO))
    /\ UNCHANGED <<control, net, gate, rxstate, held, i2s, cbs, ntx>>

\* sem_wait(&priv->rxsem) inside the loop
DqLock(t) ==
    /\ pc[t] = "dq_lock"
    /\ rxsem > 0
    /\ rxsem' = rxsem - 1
    /\ Goto(t, "dq_inc")
    /\ UNCHANGED <<control, env, gate, cnt_rxsem, rx_cnt, rxedq, ret, held, i2s,
                   cbs, pool>>

\* Mutant: the loop counts the buffer and keeps the guard.
DqIncKeepsGuard(t) ==
    /\ pc[t] = "dq_inc"
    /\ rx_cnt' = rx_cnt + 1
    /\ Goto(t, "dq_check")
    /\ UNCHANGED <<control, env, gate, rxsem, cnt_rxsem, rxedq, ret, held, i2s,
                   cbs, pool>>

\* priv->rx_cnt++; sem_post(&priv->rxsem); back to the loop condition.
DqInc(t) ==
    /\ pc[t] = "dq_inc"
    /\ rx_cnt' = rx_cnt + 1
    /\ rxsem' = rxsem + 1
    /\ Goto(t, "dq_check")
    /\ UNCHANGED <<control, env, gate, cnt_rxsem, rxedq, ret, held, i2s, cbs, pool>>

\* Mutant: the wait lets the caller through without counting down.
DqWaitNoTake(t) ==
    /\ pc[t] = "dq_wait"
    /\ cnt_rxsem > 0
    /\ Goto(t, "dq_lock2")
    /\ UNCHANGED <<control, env, gate, rxstate, ret, held, i2s, cbs, pool>>

\* sem_wait(&priv->cnt_rxsem): blocks while no completion has been counted.
DqWait(t) ==
    /\ pc[t] = "dq_wait"
    /\ cnt_rxsem > 0
    /\ cnt_rxsem' = cnt_rxsem - 1
    /\ Goto(t, "dq_lock2")
    /\ UNCHANGED <<control, env, gate, rxsem, rx_cnt, rxedq, ret, held, i2s, cbs,
                   pool>>

\* sem_wait(&priv->rxsem) before the queue is read
DqLock2(t) ==
    /\ pc[t] = "dq_lock2"
    /\ rxsem > 0
    /\ rxsem' = rxsem - 1
    /\ Goto(t, "dq_rem")
    /\ UNCHANGED <<control, env, gate, cnt_rxsem, rx_cnt, rxedq, ret, held, i2s,
                   cbs, pool>>

\* apb = dq_remfirst(&priv->rxedq); sem_post(&priv->rxsem);
\* bufdesc->u.pBuffer = apb; ret = 0: the caller owns what was removed.
DqRem(t) ==
    /\ pc[t] = "dq_rem"
    /\ rxedq' = dq_remfirst(rxedq).rest
    /\ rxsem' = rxsem + 1
    /\ held' = [held EXCEPT ![t] = dq_remfirst(rxedq).entry]
    /\ Return(t, OK)
    /\ UNCHANGED <<control, env, gate, cnt_rxsem, rx_cnt, i2s, cbs, pool>>

\* The caller puts the buffer it was given aside, unreleased, and has its
\* descriptor free for the next command: bufdesc->u.pBuffer is overwritten by
\* the next AUDIOIOC_DEQUEUEBUFFER, the buffer stays allocated and counted.
KeepBuffer(t) ==
    /\ pc[t] = "idle"
    /\ held[t] # NULL
    /\ held' = [held EXCEPT ![t] = NULL]
    /\ UNCHANGED <<control, env, gate, rxstate, pc, ret, i2s, cbs, pool>>

DequeueReceive(t) ==
    \/ DqCall(t) \/ DqCheck(t)
    \/ DqAllocFail(t) \/ DqRecvOk(t) \/ DqRecvFail(t)
    \/ DqLock(t) \/ DqInc(t)
    \/ DqWait(t) \/ DqLock2(t) \/ DqRem(t)

----------------------------------------------------------------------------
(* es8388char_rxcallback                                                   *)

\* The transport completes its oldest receive and calls back with it;
\* sem_wait(&priv->rxsem) is the callback's first step.
RxCbLock ==
    /\ rxcb.pc = "idle"
    /\ rxq # <<>>
    /\ rxsem > 0
    /\ rxsem' = rxsem - 1
    /\ rxq' = Tail(rxq)
    /\ rxcb' = [pc |-> "add", apb |-> Head(rxq)]
    /\ UNCHANGED <<control, env, gate, cnt_rxsem, rx_cnt, rxedq, pc, ret, held,
                   txq, txcb, pool>>

\* dq_addlast(apb, &priv->rxedq); sem_post(&priv->rxsem)
RxCbAdd ==
    /\ rxcb.pc = "add"
    /\ rxedq' = dq_addlast(rxcb.apb, rxedq)
    /\ rxsem' = rxsem + 1
    /\ rxcb' = [pc |-> "post", apb |-> NULL]
    /\ UNCHANGED <<control, env, gate, cnt_rxsem, rx_cnt, pc, ret, held, i2s,
                   txcb, pool>>

\* Mutant: the callback counts its completion twice.
RxCbPostTwice ==
    /\ rxcb.pc = "post"
    /\ cnt_rxsem' = cnt_rxsem + 2
    /\ rxcb' = [pc |-> "idle", apb |-> NULL]
    /\ UNCHANGED <<control, env, gate, rxsem, rx_cnt, rxedq, pc, ret, held, i2s,
                   txcb, pool>>

\* sem_post(&priv->cnt_rxsem)
RxCbPost ==
    /\ rxcb.pc = "post"
    /\ cnt_rxsem' = cnt_rxsem + 1
    /\ rxcb' = [pc |-> "idle", apb |-> NULL]
    /\ UNCHANGED <<control, env, gate, rxsem, rx_cnt, rxedq, pc, ret, held, i2s,
                   txcb, pool>>

RxCallback == RxCbLock \/ RxCbAdd \/ RxCbPost

----------------------------------------------------------------------------
(* es8388char_txcallback, one step per call it makes.                      *)

\* Mutant: the callback gives the slot back first and keeps the buffer.
TxCbPostsFirst ==
    /\ txcb = NULL
    /\ txq # <<>>
    /\ txq' = Tail(txq)
    /\ txcb' = Head(txq)
    /\ alloc' = alloc + 1
    /\ UNCHANGED <<control, env, rxstate, pc, ret, held, rxq, rxcb, pool>>

\* The transport completes its oldest send and calls back with the buffer:
\* apb_free(apb).
TxCbFree ==
    /\ txcb = NULL
    /\ txq # <<>>
    /\ txq' = Tail(txq)
    /\ txcb' = Head(txq)
    /\ crefs' = apb_free(crefs, Head(txq))
    /\ UNCHANGED <<control, env, gate, rxstate, pc, ret, held, rxq, rxcb, ntx,
                   nrx>>

\* sem_post(&priv->alloc), and the callback returns.
TxCbPost ==
    /\ txcb # NULL
    /\ txcb' = NULL
    /\ alloc' = alloc + 1
    /\ UNCHANGED <<control, env, rxstate, pc, ret, held, i2s, rxcb, pool>>

es8388char_txcallback == TxCbFree \/ TxCbPost

----------------------------------------------------------------------------
(* es8388char_configure, es8388char_start, es8388char_stop                 *)

\* int16_t x = caps->ac_controls.hw[0]
Int16(u) == IF u >= 32768 THEN u - 65536 ELSE u

Abs(x) == IF x < 0 THEN -x ELSE x

\* Mutant: the volume is derived without the upper limit on the request.
VolumeOfUnchecked(old, hw0) == (63 - (63 * hw0) \div 1000) % 256

\* AUDIO_FU_VOLUME: priv->volume (uint8_t) after a request of hw0.
VolumeOf(old, hw0) ==
    IF hw0 <= 1000 THEN (63 - (63 * hw0) \div 1000) % 256 ELSE old

\* Mutant: the balance is stored whatever the request.
BalanceOfUnchecked(old, hw0) == Int16(hw0)

\* AUDIO_FU_BALANCE: priv->balance after a request of hw0.
BalanceOf(old, hw0) == IF Abs(Int16(hw0)) <= 1000 THEN Int16(hw0) ELSE old

\* Mutant: the mic gain is stored whatever the request.
MicGainOfUnchecked(old, hw0) == Int16(hw0)

\* AUDIO_FU_MICGAIN: priv->micgain after a request of hw0.
MicGainOf(old, hw0) ==
    IF Int16(hw0) >= -16 /\ Int16(hw0) <= 53 THEN Int16(hw0) ELSE old

\* es8388char_setbitrate: the rates with a ratio code, and the code.
SupportedRates ==
    {AUDIO_SAMP_RATE_8K, AUDIO_SAMP_RATE_12K, AUDIO_SAMP_RATE_16K,
     AUDIO_SAMP_RATE_24K, AUDIO_SAMP_RATE_32K, AUDIO_SAMP_RATE_48K,
     AUDIO_SAMP_RATE_96K}

FsRatioOf(rate) ==
    CASE rate = AUDIO_SAMP_RATE_8K -> 10
      [] rate = AUDIO_SAMP_RATE_12K -> 7
      [] rate = AUDIO_SAMP_RATE_16K -> 6
      [] rate = AUDIO_SAMP_RATE_24K -> 4
      [] rate = AUDIO_SAMP_RATE_32K -> 3
      [] rate = AUDIO_SAMP_RATE_48K -> 2
      [] rate = AUDIO_SAMP_RATE_96K -> 0

\* es8388char_setdatawidth(priv): I2S_TXDATAWIDTH(priv->i2s, priv->bpsamp).
es8388char_setdatawidth(c, bpsamp) ==
    [c EXCEPT !.txdatawidth = bpsamp, !.log = Append(@, "I2S_TXDATAWIDTH")]

\* Mutant: the rate registers are written before the init script is run.
es8388char_setbitrateFirst(c, rate) ==
    IF rate \in SupportedRates
       THEN [c EXCEPT !.FsRatio = FsRatioOf(rate),
                      !.log = @ \o <<"ES8388_ADCCONTROL5", "ES8388_DACCONTROL2",
                                     "codec_init_script", "ES8388_CHIPPOWER">>]
       ELSE c

\* es8388char_setbitrate(priv): an unknown rate returns before the codec is
\* touched; otherwise codec_init_script is run, then ADCFsRatio and
\* DACFsRatio are written, then ES8388_CHIPPOWER.
es8388char_setbitrate(c, rate) ==
    IF rate \in SupportedRates
       THEN [c EXCEPT !.FsRatio = FsRatioOf(rate),
                      !.log = @ \o <<"codec_init_script", "ES8388_ADCCONTROL5",
                                     "ES8388_DACCONTROL2", "ES8388_CHIPPOWER">>]
       ELSE c

\* The command returns r: ioctl returns what es8388char_configure/start/stop
\* returned.
ControlReturn(t, cmd, r) ==
    /\ Return(t, r)
    /\ lastok' = IF r = OK THEN cmd ELSE lastok

\* A control command of a caller on the registered device; it touches
\* neither the gate, nor the receive side, nor any buffer.
ControlCall(t) ==
    /\ pc[t] = "idle"
    /\ reg.registered
    /\ UNCHANGED <<env, gate, rxstate, held, i2s, cbs, pool, reg>>

\* AUDIO_TYPE_FEATURE, AUDIO_FU_VOLUME.  es8388char_setvolume computes two
\* locals and writes nothing.
ConfigureVolume(t, hw0) ==
    /\ ControlCall(t)
    /\ ctl' = [ctl EXCEPT !.volume = VolumeOf(@, hw0)]
    /\ ControlReturn(t, "configure", OK)
    /\ UNCHANGED codec

\* AUDIO_TYPE_FEATURE, AUDIO_FU_MUTE: priv->mute = !!(caps->ac_controls.b[0]),
\* b[0] being the low byte of hw[0].
ConfigureMute(t, hw0) ==
    /\ ControlCall(t)
    /\ ctl' = [ctl EXCEPT !.mute = (hw0 % 256 # 0)]
    /\ ControlReturn(t, "configure", OK)
    /\ UNCHANGED codec

\* AUDIO_TYPE_FEATURE, AUDIO_FU_BALANCE
ConfigureBalance(t, hw0) ==
    /\ ControlCall(t)
    /\ ctl' = [ctl EXCEPT !.balance = BalanceOf(@, hw0)]
    /\ ControlReturn(t, "configure", OK)
    /\ UNCHANGED codec

\* AUDIO_TYPE_FEATURE, AUDIO_FU_MICGAIN.  es8388char_setmic is empty.
ConfigureMicGain(t, hw0) ==
    /\ ControlCall(t)
    /\ ctl' = [ctl EXCEPT !.micgain = MicGainOf(@, hw0)]
    /\ ControlReturn(t, "configure", OK)
    /\ UNCHANGED codec

\* AUDIO_TYPE_FEATURE, any other feature unit: ret = -ENOTTY.
ConfigureUnknownFeature(t) ==
    /\ ControlCall(t)
    /\ ControlReturn(t, "configure", -ENOTTY)
    /\ UNCHANGED <<ctl, codec>>

\* Mutant: the stream format is saved before the channel count is looked at.
ConfigureOutputSavesFirst(t, channels, hw0, b2) ==
    /\ ControlCall(t)
    /\ ctl' = [ctl EXCEPT !.samprate = hw0, !.nchannels = channels,
                          !.bpsamp = b2]
    /\ ControlReturn(t, "configure", IF channels # 2 THEN -ERANGE ELSE OK)
    /\ UNCHANGED codec

\* AUDIO_TYPE_OUTPUT: ret = -ERANGE unless caps->ac_channels is 2; otherwise
\* the format is saved, es8388char_setdatawidth and es8388char_setbitrate
\* run on what was saved, and ret = OK.
ConfigureOutput(t, channels, hw0, b2) ==
    /\ ControlCall(t)
    /\ IF channels # 2
          THEN /\ ControlReturn(t, "configure", -ERANGE)
               /\ UNCHANGED <<ctl, codec>>
          ELSE /\ ctl' = [ctl EXCEPT !.samprate = hw0, !.nchannels = channels,
                                     !.bpsamp = b2]
               /\ codec' = es8388char_setbitrate(
                               es8388char_setdatawidth(
                                   [codec EXCEPT !.log = <<>>], ctl'.bpsamp),
                               ctl'.samprate)
               /\ ControlReturn(t, "configure", OK)

\* AUDIO_TYPE_PROCESSING, and any ac_type without a case: ret stays OK.
ConfigureNothing(t) ==
    /\ ControlCall(t)
    /\ ControlReturn(t, "configure", OK)
    /\ UNCHANGED <<ctl, codec>>

es8388char_configure(t) ==
    \/ \E hw0 \in VolumeValues : ConfigureVolume(t, hw0)
    \/ \E hw0 \in MuteValues : ConfigureMute(t, hw0)
    \/ \E hw0 \in BalanceValues : ConfigureBalance(t, hw0)
    \/ \E hw0 \in MicGainValues : ConfigureMicGain(t, hw0)
    \/ ConfigureUnknownFeature(t)
    \/ \E channels \in ChannelValues, hw0 \in RateValues, b2 \in WidthValues :
          ConfigureOutput(t, channels, hw0, b2)
    \/ ConfigureNothing(t)

\* es8388char_start: returns OK.
es8388char_start(t) ==
    /\ ControlCall(t)
    /\ ControlReturn(t, "start", OK)
    /\ UNCHANGED <<ctl, codec>>

\* es8388char_stop: returns OK.
es8388char_stop(t) ==
    /\ ControlCall(t)
    /\ ControlReturn(t, "stop", OK)
    /\ UNCHANGED <<ctl, codec>>

----------------------------------------------------------------------------
(* es8388char_register                                                     *)

\* kmm_zalloc returns NULL: return -ENOMEM.
RegisterNoMemory ==
    /\ reg.pc = "start"
    /\ reg' = [pc |-> "done", priv |-> "none", registered |-> FALSE,
               ret |-> -ENOMEM]
    /\ UNCHANGED <<env, gate, rxstate, pc, ret, held, i2s, cbs, pool, ctl,
                   codec, lastok>>

\* The structure is allocated and initialised: the fields kmm_zalloc zeroed,
\* the semaphores, the queue and rx_cnt.
RegisterInitialise ==
    /\ reg.pc = "start"
    /\ alloc' = ES8388CHAR_TXBUF_CNT
    /\ rxsem' = 1
    /\ cnt_rxsem' = 0
    /\ rx_cnt' = 0
    /\ rxedq' = <<>>
    /\ ctl' = ZeroControl
    /\ UNCHANGED <<env, pc, ret, held, i2s, cbs, pool, codec, lastok>>

\* register_driver fails: kmm_free(priv), and the function returns OK.
RegisterDriverFails ==
    /\ RegisterInitialise
    /\ reg' = [pc |-> "done", priv |-> "freed", registered |-> FALSE,
               ret |-> OK]

\* register_driver succeeds: the function returns OK.
RegisterDriverOk ==
    /\ RegisterInitialise
    /\ reg' = [pc |-> "done", priv |-> "live", registered |-> TRUE,
               ret |-> OK]

es8388char_register ==
    RegisterNoMemory \/ RegisterDriverFails \/ RegisterDriverOk

----------------------------------------------------------------------------
(* net_delroute                                                            *)

\* An entry of the routing table (struct net_route_s).  The router address
\* is different for every entry, so it also tells the entries apart: a
\* pointer to an entry is its router, NULL being no entry.
Routes == [target : RouteTargets, netmask : RouteMasks, router : 1..MaxRoutes]

\* The tables net_addroute may have built: up to MaxRoutes entries, any
\* targets and netmasks, the same ones several times too.
Tables ==
    UNION {{q \in [1..n -> Routes] : \A i \in 1..n : q[i].router = i} :
           n \in 0..MaxRoutes}

\* a & b on addresses.
RECURSIVE BitAnd(_, _)
BitAnd(a, b) ==
    IF a = 0 \/ b = 0 THEN 0
    ELSE (a % 2) * (b % 2) + 2 * BitAnd(a \div 2, b \div 2)

\* net_ipv4addr_maskcmp(addr1, addr2, mask): equal under the mask.
net_ipv4addr_maskcmp(addr1, addr2, mask) ==
    BitAnd(addr1, mask) = BitAnd(addr2, mask)

\* net_ipv4addr_cmp(addr1, addr2)
net_ipv4addr_cmp(addr1, addr2) == addr1 = addr2

\* The place in list q of the entry that pointer p points to.
IndexOf(p, q) == CHOOSE i \in 1..Len(q) : q[i].router = p

Without(q, i) == SubSeq(q, 1, i - 1) \o SubSeq(q, i + 1, Len(q))

\* sq_remafter(prev, &g_routes): unlinks the entry that follows prev.
sq_remafter(prev, q) ==
    IF IndexOf(prev, q) < Len(q) THEN Without(q, IndexOf(prev, q) + 1) ELSE q

\* sq_remfirst(&g_routes): unlinks the entry at the head.
sq_remfirst(q) == IF q = <<>> THEN q ELSE Tail(q)

\* net_freeroute(route): the entry is added to the free list.
net_freeroute(route, free) == Append(free, route)

\* Mutant: the netmask of the entry is not compared.
net_matchAnyMask(route, st) ==
    IF net_ipv4addr_maskcmp(route.target, st.target, st.netmask)
       THEN [st EXCEPT !.ret = 1,
                       !.routes = IF st.prev # NULL
                                     THEN sq_remafter(st.prev, @)
                                     ELSE sq_remfirst(@),
                       !.free = net_freeroute(route, @)]
       ELSE [st EXCEPT !.ret = 0, !.prev = route.router]

\* Mutant: the matching entry is freed and the head of the list unlinked.
net_matchRemovesFirst(route, st) ==
    IF /\ net_ipv4addr_maskcmp(route.target, st.target, st.netmask)
       /\ net_ipv4addr_cmp(route.netmask, st.netmask)
       THEN [st EXCEPT !.ret = 1,
                       !.routes = sq_remfirst(@),
                       !.free = net_freeroute(route, @)]
       ELSE [st EXCEPT !.ret = 0, !.prev = route.router]

\* net_match(route, arg).  st carries what the handler reads and writes:
\* the match values (prev, target, netmask), the table, the free list, and
\* ret, the value returned.
net_match(route, st) ==
    IF /\ net_ipv4addr_maskcmp(route.target, st.target, st.netmask)
       /\ net_ipv4addr_cmp(route.netmask, st.netmask)
       THEN [st EXCEPT !.ret = 1,
                       !.routes = IF st.prev # NULL
                                     THEN sq_remafter(st.prev, @)
                                     ELSE sq_remfirst(@),
                       !.free = net_freeroute(route, @)]
       ELSE [st EXCEPT !.ret = 0, !.prev = route.router]

\* net_foreachroute(net_match, &match): the handler is called on the
\* entries in list order (visit is the list as it was when the traversal
\* began) until it returns a non-zero value, which is the value returned.
RECURSIVE net_foreachroute(_, _, _)
net_foreachroute(visit, i, st) ==
    IF i > Len(visit) \/ st.ret # 0 THEN st
    ELSE net_foreachroute(visit, i + 1, net_match(visit[i], st))

\* net_delroute(target, netmask)
net_delroute(target, netmask) ==
    LET match == [prev |-> NULL, target |-> target, netmask |-> netmask,
                  routes |-> g_routes, free |-> g_freeroutes, ret |-> 0]
    IN  \E done \in {net_foreachroute(g_routes, 1, match)} :
            /\ delret' = (IF done.ret # 0 THEN OK ELSE -ENOENT)
            /\ g_routes' = done.routes
            /\ g_freeroutes' = done.free
            /\ UNCHANGED <<control, faults, gate, rxstate, pc, ret, held,
                           i2s, cbs, pool>>

----------------------------------------------------------------------------
(* Specifications.                                                         *)

\* Full duplex use of the device: thread 1 plays (AllocateBuffer,
\* EnqueueTransmit), thread 2 captures (DequeueReceive, ReleaseBuffer), and
\* the transport calls both callbacks.
Next ==
    \/ AllocateBuffer(1)
    \/ EnqueueTransmit(1)
    \/ DequeueReceive(2)
    \/ ReleaseBuffer(2)
    \/ TxCallback
    \/ RxCallback

Spec == Init /\ [][Next]_vars

\* The transmit path alone: one caller issuing AllocateBuffer, ReleaseBuffer
\* and EnqueueTransmit in any order, against the transmit callback.
NextTx ==
    \/ AllocateBuffer(1)
    \/ ReleaseBuffer(1)
    \/ EnqueueTransmit(1)
    \/ TxCallback

SpecTx == Init /\ [][NextTx]_vars

\* The transmit path under fair scheduling: the transport calls back for
\* every send it accepted, and a caller that sem_wait can let through runs.
LiveSpecTx ==
    /\ SpecTx
    /\ WF_vars(TxCallback)
    /\ WF_vars(AllocApbOk(1) \/ AllocApbFail(1))

\* The receive path alone: both caller threads issuing DequeueReceive and
\* ReleaseBuffer in any order, against the receive callback.
NextRx ==
    \/ \E t \in Threads : DequeueReceive(t)
    \/ \E t \in Threads : ReleaseBuffer(t)
    \/ RxCallback

SpecRx == Init /\ [][NextRx]_vars

\* The receive path under fair scheduling: a context that holds rxsem runs
\* on, and sem_post hands rxsem to the callback that waits for it.
LiveSpecRx ==
    /\ SpecRx
    /\ \A t \in Threads : WF_vars(FreeDec(t) \/ DqInc(t) \/ DqRem(t))
    /\ WF_vars(RxCbAdd)
    /\ SF_vars(RxCbLock)

\* The receive path with a single caller.
NextRx1 ==
    \/ DequeueReceive(1)
    \/ ReleaseBuffer(1)
    \/ RxCallback

SpecRx1 == Init /\ [][NextRx1]_vars

\* The receive path with a single caller that also issues ReleaseBuffer
\* with a null handle.
NextRxNull ==
    \/ DequeueReceive(1)
    \/ ReleaseBuffer(1)
    \/ FreeCallNull(1)
    \/ RxCallback

SpecRxNull == Init /\ [][NextRxNull]_vars

\* The receive path with a single caller that may keep the buffers it
\* dequeues instead of releasing them.
NextRxKeep ==
    \/ DequeueReceive(1)
    \/ ReleaseBuffer(1)
    \/ KeepBuffer(1)
    \/ RxCallback

SpecRxKeep == Init /\ [][NextRxKeep]_vars

\* Registration and the control commands of one caller.
NextDev ==
    \/ es8388char_register
    \/ es8388char_configure(1)
    \/ es8388char_start(1)
    \/ es8388char_stop(1)

SpecDev == InitReg /\ [][NextDev]_vars

\* The output format is set while the other caller captures: thread 1
\* issues Configure for output formats of 24 bits, thread 2 is in
\* DequeueReceive, and the transport calls the receive callback.
NextFmt ==
    \/ \E channels \in ChannelValues, hw0 \in RateValues :
          ConfigureOutput(1, channels, hw0, 24)
    \/ DequeueReceive(2)
    \/ RxCallback

SpecFmt == Init /\ [][NextFmt]_vars

\* A control command while buffers are in flight: thread 1 sets the volume
\* and plays up to MaxPlayed buffers, thread 2 captures, and the transport
\* calls both callbacks.
NextCb ==
    \/ ConfigureVolume(1, 500)
    \/ (ntx < MaxPlayed /\ AllocCall(1))
    \/ AllocApbOk(1)
    \/ AllocApbFail(1)
    \/ EnqueueTransmit(1)
    \/ DequeueReceive(2)
    \/ TxCallback
    \/ RxCallback

SpecCb == Init /\ [][NextCb]_vars

\* Playing while the other caller pre-posts receive buffers, with the
\* transmit callback taken call by call: thread 1 allocates and enqueues,
\* thread 2 runs the loop of DequeueReceive, whose requests the transport has
\* not completed yet, so that it ends waiting on cnt_rxsem.
NextTxCb ==
    \/ AllocateBuffer(1)
    \/ EnqueueTransmit(1)
    \/ DqCall(2) \/ DqCheck(2)
    \/ DqAllocFail(2) \/ DqRecvOk(2) \/ DqRecvFail(2)
    \/ DqLock(2) \/ DqInc(2)
    \/ es8388char_txcallback

SpecTxCb == Init /\ [][NextTxCb]_vars

\* The routing table: any table of up to MaxRoutes entries, and routes
\* deleted from it by target and netmask.
InitRoute ==
    /\ InitDevice
    /\ reg = [pc |-> "done", priv |-> "live", registered |-> TRUE, ret |-> OK]
    /\ g_routes \in Tables
    /\ g_freeroutes = <<>>
    /\ delret = OK

NextRoute ==
    \E target \in RouteTargets, netmask \in RouteMasks :
        net_delroute(target, netmask)

SpecRoute == InitRoute /\ [][NextRoute]_vars

----------------------------------------------------------------------------
(* Claims.                                                                 *)

\* Slots of the Admission Gate in use.
InUse == ES8388CHAR_TXBUF_CNT - alloc

\* C1: for every sequence and interleaving of AllocateBuffer, ReleaseBuffer,
\* EnqueueTransmit and transmit-completion callbacks, the in-use count of
\* the Admission Gate stays within 0 .. C.
C1_InUseWithinCeiling == 0 <= InUse /\ InUse <= ES8388CHAR_TXBUF_CNT

\* The gate is exhausted by eight successful allocations, and a completion
\* has already given a slot back before.
C1_Witness ==
    /\ InUse = ES8388CHAR_TXBUF_CNT
    /\ ntx = ES8388CHAR_TXBUF_CNT + 1
    /\ faults = 0

\* C2: the transmit buffers accepted by I2S_SEND whose callback has not yet
\* run never number more than C.
C2_OutstandingWithinCeiling == Len(txq) <= ES8388CHAR_TXBUF_CNT

\* Eight transmit buffers are with the transport at once.
C2_Witness == Len(txq) = ES8388CHAR_TXBUF_CNT

\* C3: DequeueReceive returns the receive buffers in the order their
\* completions were appended; none is skipped, none is returned twice.
\* Completions are appended in the order of the handles' ranks, so: the
\* queue is in rank order, what is still to be appended ranks after it, and
\* every handle a caller has been given ranks before all that is queued.
Increasing(q) == \A i, j \in 1..Len(q) : i < j => q[i] < q[j]

C3_ReceiveFifo ==
    /\ Increasing(rxedq \o (IF rxcb.apb = NULL THEN <<>> ELSE <<rxcb.apb>>) \o rxq)
    /\ \A t \in Threads : \A i \in 1..Len(rxedq) :
          held[t] # NULL => held[t] < rxedq[i]
    /\ \A t, u \in Threads : (t # u /\ held[t] # NULL) => held[t] # held[u]

\* Both callers hold a dequeued buffer while later completions are queued.
C3_Witness ==
    /\ held[1] = RxBuf(2)
    /\ held[2] = RxBuf(1)
    /\ Len(rxedq) >= 2

\* C4 (the claim as stated): when AllocateBuffer has taken a slot and the
\* pool then fails, the slot is given back before the error is returned, so
\* the call leaves the gate as it found it.
C4_SlotReleasedOnPoolFailure ==
    [][\A t \in Threads : AllocApbFail(t) => alloc' = alloc]_vars

\* C5 (the claim as stated): when I2S_SEND rejects the buffer, the slot
\* taken for that buffer is released by the failing call.
C5_SlotReleasedOnRejection ==
    [][\A t \in Threads : \A b \in Bufs :
          EnqueueFail(t, b) => alloc' = alloc + 1]_vars

\* C6: on a fresh device the first eight AllocateBuffer calls find the gate
\* open; with the ceiling reached the ninth is blocked for as long as no
\* completion posts the gate; once a completion is due for an outstanding
\* buffer, the blocked call is let through and returns a buffer (the pool
\* having one, and the environment no failure left to answer with).
CompletionDue == txq # <<>>

AllocBlocked(t) == pc[t] = "alloc_wait" /\ ~ENABLED (AllocApbOk(t) \/ AllocApbFail(t))

C6_NinthUnblocked ==
    /\ [](pc[1] = "alloc_wait" /\ ntx < ES8388CHAR_TXBUF_CNT /\ faults = 0
            => ~AllocBlocked(1))
    /\ [](pc[1] = "alloc_wait" /\ alloc = 0 => AllocBlocked(1))
    /\ (/\ pc[1] = "alloc_wait"
        /\ alloc = 0
        /\ CompletionDue
        /\ PoolHasRoom
        /\ faults = MaxFaults)
       ~> (pc[1] = "idle" /\ ret[1] = OK /\ held[1] # NULL)

\* Eight allocations have succeeded, all eight buffers are with the
\* transport, and the ninth call is blocked on the gate.
C6_Witness ==
    /\ pc[1] = "alloc_wait"
    /\ alloc = 0
    /\ ntx = ES8388CHAR_TXBUF_CNT
    /\ Len(txq) = ES8388CHAR_TXBUF_CNT
    /\ AllocBlocked(1)
    /\ faults = MaxFaults

\* C7 (the claim as stated): in every state, between the steps of the
\* callback and of DequeueReceive too, cnt_rxsem equals the length of rxedq.
C7_CounterEqualsQueue == cnt_rxsem = Len(rxedq)

\* C7 (amended): cnt_rxsem equals the length of rxedq less the completion
\* the callback has appended and not yet posted, plus the callers that have
\* passed sem_wait(cnt_rxsem) and not yet removed their entry.
Appending == IF rxcb.pc = "post" THEN 1 ELSE 0
Removing == Cardinality({t \in Threads : pc[t] \in {"dq_lock2", "dq_rem"}})

C7_CounterAccountsForQueue == cnt_rxsem + Removing = Len(rxedq) - Appending

\* A completion is appended and not yet posted while a caller is between its
\* wait and its removal.
C7_Witness ==
    /\ rxcb.pc = "post"
    /\ pc[1] = "dq_lock2"
    /\ cnt_rxsem # Len(rxedq)

\* C8 (the claim as stated): rx_cnt never exceeds R, whatever the
\* interleaving of the callers and the callback.
C8_ReceiveCeiling == rx_cnt <= ES8388CHAR_RXBUF_CNT

\* C9: every handle is owned by exactly one of a caller, the completion
\* queue and the transport while it lives, by nobody once destroyed, and is
\* never destroyed twice.
Range(q) == {q[i] : i \in 1..Len(q)}

\* Every place a handle can be in, one entry per place that holds one.
Owned ==
    rxedq \o txq \o rxq
    \o (IF rxcb.apb = NULL THEN <<>> ELSE <<rxcb.apb>>)
    \o (IF held[1] = NULL THEN <<>> ELSE <<held[1]>>)
    \o (IF held[2] = NULL THEN <<>> ELSE <<held[2]>>)

C9_ExclusiveOwnership ==
    /\ \A b \in Bufs : crefs[b] \in {0, 1}
    /\ Range(Owned) = {b \in Bufs : crefs[b] = 1}
    /\ Cardinality(Range(Owned)) = Len(Owned)

\* Receive handles are with a caller, the queue, the callback and the
\* transport, and a transmit buffer has been destroyed by its completion.
C9_Witness ==
    /\ held[2] # NULL
    /\ rxedq # <<>> /\ rxq # <<>> /\ rxcb.apb # NULL
    /\ crefs[TxBuf(1)] = 0 /\ ntx >= 1

\* C10: with a single caller and no failure, DequeueReceive waits on
\* cnt_rxsem only with rx_cnt = R, and the first DequeueReceive on a fresh
\* device has issued exactly R receive requests when it waits.
FirstDequeue ==
    /\ faults = 0
    /\ held[1] = NULL
    /\ \A n \in 1..nrx : crefs[RxBuf(n)] = 1

C10_PrePostsToCeiling ==
    pc[1] = "dq_wait" =>
        /\ rx_cnt = ES8388CHAR_RXBUF_CNT
        /\ FirstDequeue => nrx = ES8388CHAR_RXBUF_CNT

\* The first DequeueReceive is blocked with its R requests outstanding.
C10_Witness ==
    /\ pc[1] = "dq_wait"
    /\ FirstDequeue
    /\ cnt_rxsem = 0
    /\ Len(rxq) = ES8388CHAR_RXBUF_CNT

\* C11: a pre-post attempt of DequeueReceive that fails (apb_alloc fails or
\* I2S_RECEIVE rejects) ends the call: it returns that failure at once and
\* never reaches the wait on cnt_rxsem, so a call whose every attempt fails
\* cannot block; the wait is only ever reached with ret >= 0.
C11_FailedPrePostReturns ==
    [][\A t \in Threads :
          /\ (DqAllocFail(t) \/ DqRecvFail(t)) =>
                /\ pc'[t] = "idle"
                /\ ret'[t] \in {-ENOMEM, -EIO}
                /\ cnt_rxsem' = cnt_rxsem
          /\ pc'[t] \in {"dq_wait", "dq_lock2", "dq_rem"} => ret'[t] >= 0]_vars

\* The first attempt of the first call has failed with nothing received:
\* the call has returned the failure where a wait would never end.
C11_Witness ==
    /\ pc[1] = "idle"
    /\ ret[1] = -ENOMEM
    /\ nrx = 0
    /\ rx_cnt = 0
    /\ cnt_rxsem = 0
    /\ rxq = <<>>

\* C12 (the claim as stated): ReleaseBuffer with a null handle fails: the
\* call returns an error at once and leaves rx_cnt, rxedq, cnt_rxsem and the
\* gate as they were.
C12_NullReleaseRejected ==
    [][\A t \in Threads :
          FreeCallNull(t) =>
              /\ pc'[t] = "idle"
              /\ ret'[t] < 0
              /\ UNCHANGED <<rx_cnt, rxedq, cnt_rxsem, alloc>>]_vars

\* C13 (the claim as stated): Start on a device on which no command has
\* been accepted yet (Idle) fails, and Stop after an accepted Stop fails; in
\* both cases nothing changes.
C13_IllegalTransitionsRejected ==
    [][\A t \in Threads :
          /\ (es8388char_start(t) /\ lastok = "none") =>
                (ret'[t] < 0 /\ UNCHANGED <<ctl, lastok>>)
          /\ (es8388char_stop(t) /\ lastok = "stop") =>
                (ret'[t] < 0 /\ UNCHANGED <<ctl, lastok>>)]_vars

\* C14: Configure of an output format whose channel count is not 2 returns
\* an error (-ERANGE), leaves every field of the control state as it was and
\* programs neither the I2S data width nor the codec; in whatever state it
\* is issued, so repeating it gives the same.
C14_ChannelCountRejected ==
    [][\A t \in Threads : \A channels \in ChannelValues :
       \A hw0 \in RateValues : \A b2 \in WidthValues :
          (channels # 2 /\ ConfigureOutput(t, channels, hw0, b2)) =>
              /\ ret'[t] = -ERANGE
              /\ UNCHANGED <<ctl, codec>>]_vars

\* A mono request has been refused on a device configured for stereo, whose
\* format is still in place.
C14_Witness ==
    /\ ret[1] = -ERANGE
    /\ ctl.nchannels = 2
    /\ ctl.samprate = AUDIO_SAMP_RATE_48K
    /\ ctl.bpsamp = 24
    /\ codec.txdatawidth = 24 /\ codec.FsRatio = 2

\* C15 (the claim as stated): Configure of a two-channel output format whose
\* sample rate is none of the enumerated rates returns an error.
C15_UnknownRateRejected ==
    [][\A t \in Threads : \A hw0 \in RateValues : \A b2 \in WidthValues :
          (hw0 \notin SupportedRates /\ ConfigureOutput(t, 2, hw0, b2)) =>
              ret'[t] < 0]_vars

\* C16: Configure(volume, v) stores 63 - 63*v/1000, a value in [0,63], for
\* v in [0,1000], and for v > 1000 leaves the volume as it was; no other
\* field of the control state changes.
AllHw0 == 0..65535

VolumeDerivation ==
    \A v \in AllHw0 :
        IF v <= 1000
           THEN /\ VolumeOf(0, v) = 63 - (63 * v) \div 1000
                /\ VolumeOf(0, v) \in 0..63
           ELSE VolumeOf(0, v) = 0 /\ VolumeOf(63, v) = 63

C16_VolumeDerived ==
    [][/\ VolumeDerivation
       /\ \A t \in Threads : \A hw0 \in VolumeValues :
             ConfigureVolume(t, hw0) =>
                /\ ctl' = [ctl EXCEPT !.volume =
                             IF hw0 <= 1000 THEN 63 - (63 * hw0) \div 1000
                                            ELSE @]
                /\ UNCHANGED codec]_vars

\* A volume in the middle of the range has been stored: 500 gives 32.
C16_Witness ==
    /\ ctl.volume = 32
    /\ lastok = "configure"
    /\ ctl.balance # 0

\* C17: Configure(micGain, g) with g outside [-16,53] keeps the stored gain
\* and every other field and returns no error; with g inside, the stored
\* gain becomes g.
C17_MicGainRetained ==
    [][\A t \in Threads : \A hw0 \in MicGainValues :
          ConfigureMicGain(t, hw0) =>
             /\ ret'[t] = OK
             /\ ctl' = [ctl EXCEPT !.micgain =
                          IF Int16(hw0) \in -16..53 THEN Int16(hw0) ELSE @]
             /\ UNCHANGED codec]_vars

\* The lowest gain has been stored, through a request read as int16_t.
C17_Witness ==
    /\ ctl.micgain = -16
    /\ ret[1] = OK
    /\ lastok = "configure"

\* C18: from registration on, whatever the Configure commands and their
\* 16-bit values, volume is in [0,63], balance in [-1000,1000] and micgain
\* in [-16,53]; no 16-bit request takes a value at either end of its range
\* out of the range.
RangeKeptByAllRequests ==
    \A hw0 \in AllHw0 :
        /\ VolumeOf(0, hw0) \in 0..63 /\ VolumeOf(63, hw0) \in 0..63
        /\ BalanceOf(-1000, hw0) \in -1000..1000
        /\ BalanceOf(1000, hw0) \in -1000..1000
        /\ MicGainOf(-16, hw0) \in -16..53 /\ MicGainOf(53, hw0) \in -16..53

C18_ControlRanges ==
    /\ ctl.volume \in 0..63
    /\ ctl.balance \in -1000..1000
    /\ ctl.micgain \in -16..53
    /\ RangeKeptByAllRequests

\* All three controls are at an end of their range.
C18_Witness ==
    /\ reg.registered
    /\ ctl.volume = 63
    /\ ctl.balance = -1000
    /\ ctl.micgain = 53

\* C19: no step of es8388char_txcallback or es8388char_rxcallback changes a
\* field of the control state; every step that changes one is a step of
\* Configure, Start or Stop issued by a caller.
C19_CallbacksLeaveControlState ==
    [][ctl' # ctl =>
          /\ ~(TxCallback \/ RxCallback)
          /\ \E t \in Threads :
                \/ es8388char_configure(t)
                \/ es8388char_start(t)
                \/ es8388char_stop(t)]_vars

\* Both callbacks have run on a device whose volume has been configured: a
\* transmit buffer is destroyed, a receive buffer queued.
C19_Witness ==
    /\ ctl.volume = 32
    /\ ntx >= 1 /\ crefs[TxBuf(1)] = 0
    /\ rxedq # <<>>

\* C20 (the claim as stated): es8388char_register returns OK exactly when
\* the device node was registered, a negated errno otherwise, and leaves no
\* live device structure behind when it was not.
C20_RegisterResultTruthful ==
    reg.pc = "done" =>
        /\ reg.ret = OK <=> reg.registered
        /\ reg.ret # OK => reg.ret < 0
        /\ ~reg.registered => reg.priv # "live"

\* C21: each run of es8388char_txcallback destroys the completed buffer and
\* then gives exactly one slot back (alloc rises by 1), in that order, and
\* waits for nothing: its next call can be made in every state, whatever
\* the callers hold or wait on.
C21_TxCallbackFreesThenPosts ==
    /\ [](txcb = NULL /\ txq # <<>> => ENABLED TxCbFree)
    /\ [](txcb # NULL => ENABLED TxCbPost)
    /\ [][txcb' # txcb =>
            IF txcb = NULL
               THEN /\ txcb' = Head(txq)
                    /\ crefs[txcb'] = 1 /\ crefs'[txcb'] = 0
                    /\ alloc' = alloc
               ELSE /\ crefs[txcb] = 0 /\ crefs' = crefs
                    /\ alloc' = alloc + 1]_vars

\* The callback has destroyed its buffer and not yet posted, while one
\* caller is blocked on the exhausted gate and the other holds the receive
\* guard inside the pre-post loop.
C21_Witness ==
    /\ txcb # NULL /\ crefs[txcb] = 0
    /\ alloc = 0 /\ pc[1] = "alloc_wait"
    /\ pc[2] = "dq_inc" /\ rxsem = 0

C23_FailedPassGivesBack ==
    [][\A t \in Threads :
          /\ DqRecvFail(t) =>
                /\ crefs[RxBuf(nrx')] = 0 /\ crefs' = crefs
                /\ pc'[t] = "idle" /\ ret'[t] = -EIO
                /\ UNCHANGED <<rx_cnt, rxedq, cnt_rxsem, rxq, held>>
          /\ DqAllocFail(t) =>
                /\ pc'[t] = "idle" /\ ret'[t] = -ENOMEM
                /\ UNCHANGED <<crefs, rx_cnt, rxedq, cnt_rxsem, rxq, held>>]_vars

\* A call has returned the rejection of its fourth request: the three
\* accepted before are outstanding and counted, the fourth buffer is gone.
C23_Witness ==
    /\ pc[1] = "idle" /\ ret[1] = -EIO
    /\ nrx = 4 /\ crefs[RxBuf(4)] = 0
    /\ rx_cnt = 3 /\ Len(rxq) = 3
    /\ rxedq = <<>> /\ cnt_rxsem = 0
    /\ pc[2] = "idle"

\* C24: with callers and callbacks interleaved in any way, cnt_rxsem never
\* exceeds the length of rxedq less the callers that have passed the wait
\* and not yet removed their entry; so a caller that has passed the wait
\* finds rxedq non-empty when it removes the head, and DequeueReceive does
\* not hand out a null buffer.
C24_EntryForEveryConsumer ==
    /\ cnt_rxsem <= Len(rxedq) - Removing
    /\ \A t \in Threads :
          pc[t] = "dq_rem" => /\ rxedq # <<>>
                              /\ dq_remfirst(rxedq).entry # NULL

\* Both callers have passed the wait and neither has removed its entry yet:
\* the queue holds exactly their two entries and the counter is used up.
C24_Witness ==
    /\ pc[1] = "dq_lock2"
    /\ pc[2] = "dq_rem"
    /\ Len(rxedq) = 2
    /\ cnt_rxsem = 0

\* C25: rxsem is held by at most one context at a time; a context that
\* holds it waits for nothing (no other semaphore, nor the transport): its
\* next step can always be taken and gives rxsem back.  So the callback
\* that waits for rxsem gets it, and no interleaving of the callback,
\* DequeueReceive and ReleaseBuffer is stuck on rxsem.
Holding ==
    Cardinality({t \in Threads : pc[t] \in {"free_dec", "dq_inc", "dq_rem"}})
    + (IF rxcb.pc = "add" THEN 1 ELSE 0)

C25_GuardNeverDeadlocks ==
    /\ [](rxsem \in {0, 1} /\ rxsem + Holding = 1)
    /\ [](\A t \in Threads :
            pc[t] \in {"free_dec", "dq_inc", "dq_rem"} =>
                ENABLED (FreeDec(t) \/ DqInc(t) \/ DqRem(t)))
    /\ [](rxcb.pc = "add" => ENABLED RxCbAdd)
    /\ [][rxsem = 0 /\ rxsem' # rxsem => rxsem' = 1 /\ Holding' = 0]_vars
    /\ (rxcb.pc = "idle" /\ rxq # <<>>) ~> (rxcb.pc = "add")

\* The callback waits for rxsem while one caller holds it and the other
\* waits for it too.
C25_Witness ==
    /\ rxcb.pc = "idle" /\ rxq # <<>>
    /\ rxsem = 0
    /\ pc[1] = "dq_inc"
    /\ pc[2] = "free_lock"

\* C26 (the claim as stated): however many dequeued buffers the caller has
\* not released, a caller blocked on cnt_rxsem with rxedq empty has at least
\* one receive request outstanding at the transport (so that, the transport
\* calling back once per request, the call returns a buffer).
C26_BlockedCallerIsServed ==
    \A t \in Threads :
        (pc[t] = "dq_wait" /\ cnt_rxsem = 0 /\ rxedq = <<>>) =>
            (rxq # <<>> \/ rxcb.apb # NULL)

\* C27: while the other caller is inside the pre-post loop of
\* DequeueReceive or blocked on cnt_rxsem, a caller's AllocateBuffer (a slot
\* being free), its EnqueueTransmit and the transmit callback can each take
\* their next step, whatever rxsem and cnt_rxsem are; and their steps leave
\* the receive side alone.
InDequeue(t) ==
    pc[t] \in {"dq_check", "dq_post", "dq_lock", "dq_inc", "dq_wait"}

C27_TransmitIndependent ==
    /\ [](InDequeue(2) =>
            /\ (pc[1] = "idle" /\ held[1] = NULL) => ENABLED AllocCall(1)
            /\ (pc[1] = "alloc_wait" /\ alloc > 0) =>
                   /\ ENABLED (AllocApbOk(1) \/ AllocApbFail(1))
                   /\ PoolHasRoom => ENABLED AllocApbOk(1)
            /\ (pc[1] = "idle" /\ held[1] # NULL) =>
                   ENABLED EnqueueOk(1, held[1])
            /\ (txq # <<>> /\ txcb = NULL) => ENABLED TxCbFree
            /\ txcb # NULL => ENABLED TxCbPost)
    /\ [][(pc'[1] # pc[1] \/ held'[1] # held[1] \/ txq' # txq
              \/ txcb' # txcb) =>
             UNCHANGED <<rxsem, cnt_rxsem, rx_cnt, rxedq, rxq>>]_vars

\* A buffer has been allocated, sent and completed, and the next one is
\* being sent, with the other caller blocked on cnt_rxsem at the ceiling.
C27_Witness ==
    /\ pc[2] = "dq_wait" /\ cnt_rxsem = 0
    /\ rx_cnt = ES8388CHAR_RXBUF_CNT
    /\ crefs[TxBuf(1)] = 0 /\ ntx = 1
    /\ pc[1] = "alloc_wait"

\* C28: callers releasing only what DequeueReceive gave them, rx_cnt is never
\* negative, and whenever no DequeueReceive or ReleaseBuffer is under way it
\* equals the receive requests the transport has accepted and whose buffer
\* the callback has not queued yet, plus the buffers in rxedq, plus the
\* buffers dequeued and not yet released.
NotCalledBack == Len(rxq) + (IF rxcb.apb # NULL THEN 1 ELSE 0)

Dequeued == Cardinality({t \in Threads : held[t] # NULL})

C28_ReceiveConservation ==
    /\ rx_cnt >= 0
    /\ (\A t \in Threads : pc[t] = "idle") =>
           rx_cnt = NotCalledBack + Len(rxedq) + Dequeued

\* Buffers are in all three places at once, after a release and the
\* request that made up for it.
C28_Witness ==
    /\ \A t \in Threads : pc[t] = "idle" /\ held[t] # NULL
    /\ rxq # <<>> /\ rxedq # <<>>
    /\ rx_cnt = ES8388CHAR_RXBUF_CNT
    /\ nrx = ES8388CHAR_RXBUF_CNT + 1
    /\ faults = 0

\* C29: a Configure of an output format with two channels and a supported
\* rate stores the rate, the channel count and the sample width, then
\* programs the transport's data width (to the width stored), then runs the
\* codec init script, then writes the rate-ratio registers (with the code
\* of the rate stored), in that order, and returns OK; the gate, the
\* completion queue and the counters are as they were.
C29_FormatProgrammedInOrder ==
    [][\A hw0 \in RateValues :
          (hw0 \in SupportedRates /\ ConfigureOutput(1, 2, hw0, 24)) =>
              /\ ctl' = [ctl EXCEPT !.samprate = hw0, !.nchannels = 2,
                                    !.bpsamp = 24]
              /\ codec'.txdatawidth = 24
              /\ codec'.FsRatio = FsRatioOf(hw0)
              /\ SubSeq(codec'.log, 1, 4) =
                     <<"I2S_TXDATAWIDTH", "codec_init_script",
                       "ES8388_ADCCONTROL5", "ES8388_DACCONTROL2">>
              /\ ret'[1] = OK
              /\ UNCHANGED <<alloc, rxsem, cnt_rxsem, rx_cnt, rxedq, rxq,
                             crefs>>]_vars

\* The format has been set to 48 kHz, 24 bits, while receive buffers are
\* outstanding, queued and with the other caller.
C29_Witness ==
    /\ ret[1] = OK /\ lastok = "configure"
    /\ ctl.samprate = AUDIO_SAMP_RATE_48K /\ ctl.bpsamp = 24
    /\ codec.FsRatio = 2 /\ Len(codec.log) = 5
    /\ rx_cnt = ES8388CHAR_RXBUF_CNT
    /\ rxq # <<>> /\ rxedq # <<>> /\ held[2] # NULL

\* C30: net_delroute(target, netmask) removes at most one entry: the first
\* in table order whose netmask equals netmask and whose target equals
\* target under that mask.  It then returns OK, the entry is on the free
\* list, and the other entries are all there in their order.  If no entry
\* matches it returns -ENOENT and the table is as it was.
Matching(q, target, netmask) ==
    {i \in 1..Len(q) : /\ q[i].netmask = netmask
                        /\ BitAnd(q[i].target, netmask) = BitAnd(target, netmask)}

First(S) == CHOOSE i \in S : \A j \in S : i <= j

C30_DeletesFirstMatch ==
    [][\A target \in RouteTargets : \A netmask \in RouteMasks :
          net_delroute(target, netmask) =>
             IF Matching(g_routes, target, netmask) = {}
                THEN /\ delret' = -ENOENT
                     /\ UNCHANGED <<g_routes, g_freeroutes>>
                ELSE /\ delret' = OK
                     /\ g_routes' =
                           Without(g_routes,
                                   First(Matching(g_routes, target, netmask)))
                     /\ g_freeroutes' =
                           Append(g_freeroutes,
                                  g_routes[First(Matching(g_routes, target,
                                                          netmask))])]_vars

\* Of three entries that all matched the same request, the first has been
\* deleted and then the second: the third is left, the two are on the free
\* list.
C30_Witness ==
    /\ delret = OK
    /\ Len(g_routes) = 1 /\ g_routes[1].router = 3
    /\ Len(g_freeroutes) = 2
    /\ g_freeroutes[1].router = 1 /\ g_freeroutes[2].router = 2
    /\ \A i \in 1..2 : /\ g_freeroutes[i].netmask = g_routes[1].netmask
                        /\ BitAnd(g_freeroutes[i].target, 2)
                              = BitAnd(g_routes[1].target, 2)
    /\ g_routes[1].netmask = 2

====
